---- MODULE Spec2Model ----
(***************************************************************************)
(* The Dapp component of frontend/src/components/Dapp.js as a state        *)
(* machine: the component's hook state, the closures React hands to event  *)
(* handlers, timers and promise continuations, the listeners registered on *)
(* window.ethereum, the live setInterval timers, the pending setTimeout    *)
(* callbacks and the asynchronous calls in flight.                         *)
(*                                                                         *)
(* Every useCallback of the component lists all the state it reads in its  *)
(* dependencies, so a closure created by a render sees exactly that        *)
(* render's selectedAddress, contract and pollingInterval: a closure is    *)
(* modelled by that triple (its environment).                              *)
(***************************************************************************)
EXTENDS Naturals, FiniteSets, Bags, TLC

\* ---------------------------------------------------------------- bounds
MaxConnects == 2
MaxAccountEvents == 1
MaxTransfers == 2
MaxTicks == 1
MaxFaults == 2
MaxDisconnects == 1
MaxListeners == 3
MaxAccountsChangedAgain == 2

\* ------------------------------------------------------------- constants
ERROR_CODE_TX_REJECTED_BY_USER == 4001
ERROR_CODE_CHAIN_NOT_ON_METAMASK == 4902
OtherErrorCode == ERROR_CODE_TX_REJECTED_BY_USER + 1

Undef == "undefined"
Addresses == {"A", "B"}
\* what balanceOf may answer: parseEther("0") or a positive amount
Balances == {0, 1}
NoContract == 0
NoInterval == 0
NoTx == 0

VARIABLES
  state,      \* the component's hook state (useState, lines 66-74)
  rendered,   \* the state the last committed render was computed from
  listeners,  \* bag of accountsChanged listeners on window.ethereum (closures)
  intervals,  \* the setInterval timers not yet cleared: [id, sa, ct]
  timeouts,   \* bag of pending setTimeout(startPollingData, 100) closures
  procs,      \* bag of asynchronous calls awaiting a wallet or chain answer
  chainOK,    \* window.ethereum.networkVersion = NETWORK_ID.toString()
  nextInterval,  \* the identity the next setInterval returns
  used        \* how much of each bound the run has used

vars == <<state, rendered, listeners, intervals, timeouts, procs, chainOK,
          nextInterval, used>>

\* ------------------------------------------------------------ hook state
\* useState initial values, lines 66-74
InitialState ==
  [ tokenData |-> Undef, selectedAddress |-> Undef, balance |-> 0,
    txBeingSent |-> NoTx, transactionError |-> Undef, networkError |-> Undef,
    contract |-> NoContract, pollingInterval |-> NoInterval,
    isConnecting |-> FALSE ]

\* resetState, lines 76-85: every slot but isConnecting
resetState(s) ==
  [ s EXCEPT !.tokenData = Undef, !.selectedAddress = Undef, !.balance = 0,
             !.txBeingSent = NoTx, !.transactionError = Undef,
             !.networkError = Undef, !.contract = NoContract,
             !.pollingInterval = NoInterval ]

\* disconnectWallet, lines 117-119
disconnectWallet(s) == resetState(s)

\* dismissTransactionError, lines 249-251
dismissTransactionError(s) == [s EXCEPT !.transactionError = Undef]

\* dismissNetworkError, lines 274-276
dismissNetworkError(s) == [s EXCEPT !.networkError = Undef]

\* The environment of the closures a render creates.
Env(s) == [sa |-> s.selectedAddress, ct |-> s.contract, pi |-> s.pollingInterval]

\* What a render reads to choose the screen and build the handlers.
Snapshot(s) ==
  [ sa |-> s.selectedAddress, ct |-> s.contract, pi |-> s.pollingInterval,
    td |-> s.tokenData, bal |-> s.balance, conn |-> s.isConnecting,
    nerr |-> s.networkError ]

\* The screen a render returns, lines 401-471. window.ethereum is present.
\* balance is a BigInt: !balance is true for 0n.
View(r) ==
  IF r.sa = Undef THEN "connect"
  ELSE IF r.td = Undef \/ r.bal = 0 THEN "loading"
  ELSE "main"

AddBag(b, e) == b (+) SetToBag({e})
DelBag(b, e) == b (-) SetToBag({e})

\* ------------------------------------------------------------ rendering
\* stopPollingData, lines 242-247, as the closure with environment e runs it
\* on w = [state, intervals].
stopPollingData(e, w) ==
  IF e.pi # NoInterval
  THEN [ state |-> [w.state EXCEPT !.pollingInterval = NoInterval],
         intervals |-> {i \in w.intervals : i.id # e.pi} ]
  ELSE w

\* One render of Dapp and the effects it commits.
\*  - line 451 calls dismissTransactionError() while rendering the main view
\*    with a transactionError set;
\*  - both effects (lines 380-399) re-run when a dependency changed: the
\*    previous run's cleanup calls that render's stopPollingData, and the first
\*    effect registers one more accountsChanged listener (it removes none).
Render(s, r, ls, iv) ==
  LET s1 == IF View(Snapshot(s)) = "main" /\ s.transactionError # Undef
            THEN dismissTransactionError(s) ELSE s
      old == [sa |-> r.sa, ct |-> r.ct, pi |-> r.pi]
      changed == Env(s1) # old
      w == IF changed
           THEN stopPollingData(old, [state |-> s1, intervals |-> iv])
           ELSE [state |-> s1, intervals |-> iv]
  IN [ state |-> w.state, intervals |-> w.intervals,
       rendered |-> Snapshot(s1),
       listeners |-> IF changed THEN AddBag(ls, Env(s1)) ELSE ls ]

\* A render is due: the state differs from what the screen was computed from.
RenderDue(s, r) ==
  \/ Snapshot(s) # r
  \/ View(Snapshot(s)) = "main" /\ s.transactionError # Undef

Clean == ~RenderDue(state, rendered)

\* React renders the updates of a timer callback and of an effect's cleanup
\* in a later task: callbacks that are due together run before it.
Commit ==
  /\ RenderDue(state, rendered)
  /\ LET c == Render(state, rendered, listeners, intervals)
     IN /\ state' = c.state
        /\ rendered' = c.rendered
        /\ listeners' = c.listeners
        /\ intervals' = c.intervals
  /\ UNCHANGED <<timeouts, procs, chainOK, nextInterval, used>>

\* A step that ends with w = [state, intervals] and is rendered at once. The
\* updates of a React event handler (a click) are rendered before the next
\* event; those of a promise continuation or a wallet event are rendered in
\* the next task, taken here to run before the next wallet or chain answer
\* arrives.
FlushW(w) ==
  LET c == Render(w.state, rendered, listeners, w.intervals)
  IN /\ state' = c.state
     /\ rendered' = c.rendered
     /\ listeners' = c.listeners
     /\ intervals' = c.intervals

Flush(s) == FlushW([state |-> s, intervals |-> intervals])

Use(k) == used' = [used EXCEPT ![k] = @ + 1]

\* used.faults is the bag of the wallet and chain requests that failed.
MayFail == BagCardinality(used.faults) < MaxFaults
Fault(k) == used' = [used EXCEPT !.faults = @ (+) SetToBag({k})]
Failed(k) == BagIn(k, used.faults)

\* ------------------------------------------------------------ processes
Proc(kind, pc, nested, addr, e) ==
  [ kind |-> kind, pc |-> pc, nested |-> nested, addr |-> addr,
    sa |-> e.sa, ct |-> e.ct, pi |-> e.pi, tx |-> NoTx ]

EnvOf(p) == [sa |-> p.sa, ct |-> p.ct, pi |-> p.pi]

\* The address the initialize call of p works for: switchChain (line 291)
\* passes its closure's selectedAddress, connectWallet (line 365) and the
\* accountsChanged listener (line 387) pass the address they were given.
InitAddr(p) == IF p.nested THEN p.sa ELSE p.addr

Replace(p, q) == AddBag(DelBag(procs, p), q)

Running(kind, pc) == {p \in BagToSet(procs) : p.kind = kind /\ p.pc = pc}

\* An initialize call is awaiting the answer named by pc, whoever called it.
Initializing(pc) ==
  {p \in BagToSet(procs) : p.kind \in {"connectWallet", "initialize"} /\ p.pc = pc}

Init ==
  /\ state = InitialState
  /\ rendered = Snapshot(InitialState)
  /\ listeners = SetToBag({Env(InitialState)})
  /\ intervals = {}
  /\ timeouts = EmptyBag
  /\ procs = EmptyBag
  /\ chainOK \in BOOLEAN
  /\ nextInterval = 1
  /\ used = [connects |-> 0, events |-> 0, transfers |-> 0, ticks |-> 0,
             faults |-> EmptyBag, disconnects |-> 0]

\* ------------------------------------------------------------ connectWallet
\* connectWalletCatch without the resetState() of line 374.
connectWalletCatchKeepsSession(s, msg) ==
  [s EXCEPT !.networkError = msg, !.isConnecting = FALSE]

\* connectWallet's catch and finally, lines 372-377
connectWalletCatch(s, msg) ==
  [resetState([s EXCEPT !.networkError = msg]) EXCEPT !.isConnecting = FALSE]

\* connectWalletDone without the finally of lines 375-377.
connectWalletDoneKeepsConnecting(s) == [s EXCEPT !.networkError = Undef]

\* connectWallet after its initialize call returned, lines 366 and 376
connectWalletDone(s) ==
  [s EXCEPT !.networkError = Undef, !.isConnecting = FALSE]

\* initialize, line 202
setSelectedAddress(s, a) == [s EXCEPT !.selectedAddress = a]

\* The Connect Wallet button (ConnectWallet.js lines 19-26, shown by Dapp.js
\* lines 405-414): connectWallet up to its first await, lines 343-346.
ClickConnect ==
  /\ Clean
  /\ View(rendered) = "connect" /\ ~rendered.conn
  /\ used.connects < MaxConnects
  /\ Flush([state EXCEPT !.isConnecting = TRUE])
  /\ procs' = AddBag(procs, Proc("connectWallet", "accounts", FALSE, Undef, Env(state)))
  /\ Use("connects")
  /\ UNCHANGED <<timeouts, chainOK, nextInterval>>

\* eth_requestAccounts answers, lines 346-365.
AccountsGranted ==
  \E p \in Running("connectWallet", "accounts") : \E a \in Addresses :
    /\ IF chainOK
       THEN /\ Flush(setSelectedAddress(state, a))
            /\ procs' = Replace(p, [p EXCEPT !.pc = "code", !.addr = a])
       ELSE /\ UNCHANGED <<state, rendered, listeners, intervals>>
            /\ procs' = Replace(p, [p EXCEPT !.pc = "switch", !.addr = a])
    /\ UNCHANGED <<timeouts, chainOK, nextInterval, used>>

\* eth_requestAccounts answers with no account, or is rejected, lines 348-350, 372-377.
AccountsRefused ==
  \E p \in Running("connectWallet", "accounts") :
  \E msg \in {"No accounts returned from wallet", "User rejected the request"} :
    /\ MayFail
    /\ Flush(connectWalletCatch(state, msg))
    /\ procs' = DelBag(procs, p)
    /\ Fault("accounts")
    /\ UNCHANGED <<timeouts, chainOK, nextInterval>>

\* wallet_switchEthereumChain succeeds, lines 287-291 (first try or line 325):
\* switchChain goes on to initialize(selectedAddress) with its closure's address.
SwitchGranted ==
  \E p \in Running("connectWallet", "switch") \cup Running("connectWallet", "reswitch") :
    /\ chainOK' = TRUE
    /\ Flush(setSelectedAddress(state, p.sa))
    /\ procs' = Replace(p, [p EXCEPT !.pc = "code", !.nested = TRUE])
    /\ UNCHANGED <<timeouts, nextInterval, used>>

\* checkNetwork failed, lines 358-365: the message is set and connectWallet
\* goes on to initialize(newSelectedAddress).
networkFailed(s, p) ==
  setSelectedAddress([s EXCEPT !.networkError = "Please connect to the Sepolia testnet."], p.addr)

\* The fault a failed wallet_switchEthereumChain is counted as.
SwitchFault(c) ==
  IF c = ERROR_CODE_CHAIN_NOT_ON_METAMASK THEN "unrecognized" ELSE "switch"

\* SwitchRefused without the test of line 306: any failure of the first
\* switch is answered with wallet_addEthereumChain.
SwitchRefusedAlwaysAdds ==
  \E p \in Running("connectWallet", "switch") \cup Running("connectWallet", "reswitch") :
  \E c \in {ERROR_CODE_CHAIN_NOT_ON_METAMASK, OtherErrorCode} :
    /\ MayFail
    /\ IF p.pc = "switch"
       THEN /\ UNCHANGED <<state, rendered, listeners, intervals>>
            /\ procs' = Replace(p, [p EXCEPT !.pc = "add"])
       ELSE /\ Flush(networkFailed(state, p))
            /\ procs' = Replace(p, [p EXCEPT !.pc = "code"])
    /\ Fault(SwitchFault(c))
    /\ UNCHANGED <<timeouts, chainOK, nextInterval>>

\* wallet_switchEthereumChain fails with code c, lines 304-331.
SwitchRefused ==
  \E p \in Running("connectWallet", "switch") \cup Running("connectWallet", "reswitch") :
  \E c \in {ERROR_CODE_CHAIN_NOT_ON_METAMASK, OtherErrorCode} :
    /\ MayFail
    /\ IF p.pc = "switch" /\ c = ERROR_CODE_CHAIN_NOT_ON_METAMASK
       THEN /\ UNCHANGED <<state, rendered, listeners, intervals>>
            /\ procs' = Replace(p, [p EXCEPT !.pc = "add"])
       ELSE /\ Flush(networkFailed(state, p))
            /\ procs' = Replace(p, [p EXCEPT !.pc = "code"])
    /\ Fault(SwitchFault(c))
    /\ UNCHANGED <<timeouts, chainOK, nextInterval>>

\* wallet_addEthereumChain answers, lines 309-328.
AddAnswered ==
  \E p \in Running("connectWallet", "add") :
    \/ /\ UNCHANGED <<state, rendered, listeners, intervals>>
       /\ procs' = Replace(p, [p EXCEPT !.pc = "reswitch"])
       /\ UNCHANGED <<timeouts, chainOK, nextInterval, used>>
    \/ /\ MayFail
       /\ Flush(networkFailed(state, p))
       /\ procs' = Replace(p, [p EXCEPT !.pc = "code"])
       /\ Fault("add")
       /\ UNCHANGED <<timeouts, chainOK, nextInterval>>

\* --------------------------------------------------------------- initialize
\* The initialize call of p returns with state s: an accountsChanged
\* listener drops the promise (line 387), switchChain returns to
\* connectWallet, which calls initialize(newSelectedAddress) (line 365), and
\* connectWallet itself finishes (lines 366, 376).
Return(p, s) ==
  IF p.kind = "initialize"
  THEN /\ Flush(s)
       /\ procs' = DelBag(procs, p)
  ELSE IF p.nested
  THEN /\ Flush(setSelectedAddress(s, p.addr))
       /\ procs' = Replace(p, [p EXCEPT !.pc = "code", !.nested = FALSE])
  ELSE /\ Flush(connectWalletDone(s))
       /\ procs' = DelBag(procs, p)

\* line 229: setTimeout(() => startPollingData(), 100) with p's closure
Schedule(p) == timeouts' = AddBag(timeouts, EnvOf(p))

\* contractMissing without the setTokenData of line 234.
contractMissingNoPlaceholder(s) == [s EXCEPT !.balance = 0]

\* lines 233-235: the defaults when initializeEthers returned null
contractMissing(s) == [s EXCEPT !.tokenData = "placeholder", !.balance = 0]

\* new Contract(TOKEN, TokenArtifact.abi, signer), line 104: an object that is
\* not the one in state. Every contract is bound to the same address; the one
\* thing that tells two of them apart is React's comparison of the new state
\* and of the hooks' dependencies with the previous ones.
NewContract(c) == IF c = 1 THEN 2 ELSE 1

\* initializeEthers answers (verifyContractAddress lines 34-56 and
\* getSigner, lines 92-115): a contract with code, set in state ...
ContractCreated ==
  \E p \in Initializing("code") :
    /\ Flush([state EXCEPT !.contract = NewContract(state.contract)])
    /\ procs' = Replace(p, [p EXCEPT !.pc = "meta"])
    /\ UNCHANGED <<timeouts, chainOK, nextInterval, used>>

\* ... or null: getCode answered '0x' or a call threw (lines 47-55, 97-100, 111-114).
ContractMissing ==
  \E p \in Initializing("code") :
    /\ MayFail
    /\ Return(p, contractMissing(state))
    /\ Fault("code")
    /\ UNCHANGED <<timeouts, chainOK, nextInterval>>

\* name() and symbol() answered, lines 216-218.
MetadataLoaded ==
  \E p \in Initializing("meta") :
    /\ Flush([state EXCEPT !.tokenData = "loaded"])
    /\ procs' = Replace(p, [p EXCEPT !.pc = "bal"])
    /\ UNCHANGED <<timeouts, chainOK, nextInterval, used>>

\* The catch of lines 223-226: getTokenData() of p's closure, lines 121-144,
\* which returns at once without a contract and otherwise asks it again.
Caught(p) ==
  IF p.ct = NoContract
  THEN /\ Return(p, state)
       /\ Schedule(p)
  ELSE /\ UNCHANGED <<state, rendered, listeners, intervals>>
       /\ procs' = Replace(p, [p EXCEPT !.pc = "gtd"])
       /\ timeouts' = timeouts

\* name() or symbol() threw.
MetadataFailed ==
  \E p \in Initializing("meta") :
    /\ MayFail
    /\ Caught(p)
    /\ Fault("meta")
    /\ UNCHANGED <<chainOK, nextInterval>>

\* balanceOf(userAddress) answered b, lines 221-222, then line 229.
BalanceLoaded ==
  \E p \in Initializing("bal") : \E b \in Balances :
    /\ InitAddr(p) # Undef
    /\ Return(p, [state EXCEPT !.balance = b])
    /\ Schedule(p)
    /\ UNCHANGED <<chainOK, nextInterval, used>>

\* balanceOf(userAddress) threw; it always does for an undefined address.
BalanceFailed ==
  \E p \in Initializing("bal") :
    /\ IF InitAddr(p) = Undef THEN TRUE ELSE MayFail
    /\ Caught(p)
    /\ IF InitAddr(p) = Undef THEN used' = used ELSE Fault("bal")
    /\ UNCHANGED <<chainOK, nextInterval>>

\* getTokenData's name() and symbol() answered, lines 131-139, then line 229.
TokenDataFetched ==
  \E p \in Initializing("gtd") :
    /\ Return(p, [state EXCEPT !.tokenData = "loaded"])
    /\ Schedule(p)
    /\ UNCHANGED <<chainOK, nextInterval, used>>

\* getTokenData threw (line 142): initialize's outer catch, line 237, and no
\* timer. The call that failed for the new contract fails again for the old.
TokenDataFailed ==
  \E p \in Initializing("gtd") :
    /\ Return(p, state)
    /\ UNCHANGED <<timeouts, chainOK, nextInterval, used>>

\* ------------------------------------------------------------------ polling
\* An updateBalance call, lines 149-167, that passed the guard of line 151 and
\* awaits balanceOf(selectedAddress) of its closure; pi names the interval
\* whose startPollingData or callback issued it.
Read(e, id) == Proc("updateBalance", "read", FALSE, e.sa, [e EXCEPT !.pi = id])

\* startPollingData, lines 172-193, run by the closure with environment e.
startPollingData(e) ==
  IF e.sa = Undef
  THEN UNCHANGED <<state, intervals, procs, nextInterval>>
  ELSE /\ intervals' = {i \in intervals : i.id # e.pi}
                         \cup {[id |-> nextInterval, sa |-> e.sa, ct |-> e.ct]}
       /\ state' = [state EXCEPT !.pollingInterval = nextInterval]
       /\ nextInterval' = nextInterval + 1
       /\ procs' = IF e.ct = NoContract THEN procs
                   ELSE AddBag(procs, Read(e, nextInterval))

\* The 100 ms timeout of line 229 fires.
TimeoutFires ==
  \E e \in BagToSet(timeouts) :
    /\ timeouts' = DelBag(timeouts, e)
    /\ startPollingData(e)
    /\ UNCHANGED <<rendered, listeners, chainOK, used>>

\* A live interval ticks, lines 183-187. The callback's updateBalance returns
\* at line 152 when its closure has no contract: that tick changes nothing.
Tick ==
  \E i \in intervals :
    /\ i.ct # NoContract
    /\ used.ticks < MaxTicks
    /\ procs' = AddBag(procs, Read([sa |-> i.sa, ct |-> i.ct, pi |-> i.id], i.id))
    /\ Use("ticks")
    /\ UNCHANGED <<state, rendered, listeners, intervals, timeouts, chainOK, nextInterval>>

\* balanceOf answers an updateBalance call, lines 156-157.
BalanceRead ==
  \E p \in Running("updateBalance", "read") : \E b \in Balances :
    /\ Flush([state EXCEPT !.balance = b])
    /\ procs' = DelBag(procs, p)
    /\ UNCHANGED <<timeouts, chainOK, nextInterval, used>>

\* BalanceReadFailed without the setBalance of line 161.
BalanceReadFailedKeepsBalance ==
  \E p \in Running("updateBalance", "read") :
    /\ MayFail
    /\ Flush(state)
    /\ procs' = DelBag(procs, p)
    /\ Fault("read")
    /\ UNCHANGED <<timeouts, chainOK, nextInterval>>

\* balanceOf throws in an updateBalance call, lines 158-162.
BalanceReadFailed ==
  \E p \in Running("updateBalance", "read") :
    /\ MayFail
    /\ Flush([state EXCEPT !.balance = 0])
    /\ procs' = DelBag(procs, p)
    /\ Fault("read")
    /\ UNCHANGED <<timeouts, chainOK, nextInterval>>

\* ------------------------------------------------------------ transferTokens
\* transferCatch without the test of line 264.
transferCatchAlwaysReports(s, c, err) ==
  [s EXCEPT !.transactionError = err, !.txBeingSent = NoTx]

\* transferTokens' catch and finally, lines 263-271, for an error with code c.
transferCatch(s, c, err) ==
  [ (IF c = ERROR_CODE_TX_REJECTED_BY_USER THEN s
     ELSE [s EXCEPT !.transactionError = err])
    EXCEPT !.txBeingSent = NoTx ]

\* transferTokens' finally alone, line 270.
transferFinally(s) == [s EXCEPT !.txBeingSent = NoTx]

\* The Transfer form of the main view (lines 462-467): transferTokens up to
\* its first await, lines 255-256. Without a contract, contract.transfer
\* throws a TypeError, which has no code.
ClickTransfer ==
  /\ Clean
  /\ View(rendered) = "main"
  /\ used.transfers < MaxTransfers
  /\ IF rendered.ct = NoContract
     THEN /\ Flush(transferCatch(dismissTransactionError(state), OtherErrorCode, "TypeError"))
          /\ procs' = procs
     ELSE /\ Flush(dismissTransactionError(state))
          /\ procs' = AddBag(procs, [Proc("transferTokens", "send", FALSE,
                                          rendered.sa, Env(state))
                                     EXCEPT !.tx = used.transfers + 1])
  /\ Use("transfers")
  /\ UNCHANGED <<timeouts, chainOK, nextInterval>>

\* contract.transfer answers with the transaction, lines 256-257.
TransferSent ==
  \E p \in Running("transferTokens", "send") :
    /\ Clean
    /\ state' = [state EXCEPT !.txBeingSent = p.tx]
    /\ procs' = Replace(p, [p EXCEPT !.pc = "wait"])
    /\ UNCHANGED <<rendered, listeners, intervals, timeouts, chainOK, nextInterval, used>>

\* contract.transfer or tx.wait throws an error with code c, lines 263-271.
TransferThrew ==
  \E p \in Running("transferTokens", "send") \cup Running("transferTokens", "wait") :
  \E c \in {ERROR_CODE_TX_REJECTED_BY_USER, OtherErrorCode} :
    /\ Clean
    /\ MayFail
    /\ state' = transferCatch(state, c, "Error")
    /\ procs' = DelBag(procs, p)
    /\ Fault(IF c = ERROR_CODE_TX_REJECTED_BY_USER THEN "rejected" ELSE "threw")
    /\ UNCHANGED <<rendered, listeners, intervals, timeouts, chainOK, nextInterval>>

\* tx.wait answers with a receipt of status 0, lines 259-261 and 263-271.
TransferReverted ==
  \E p \in Running("transferTokens", "wait") :
    /\ Clean
    /\ MayFail
    /\ state' = transferCatch(state, OtherErrorCode, "Transaction failed")
    /\ procs' = DelBag(procs, p)
    /\ Fault("revert")
    /\ UNCHANGED <<rendered, listeners, intervals, timeouts, chainOK, nextInterval>>

\* tx.wait answers with a receipt of status 1: await updateBalance(), line 262,
\* with the closure of the transferTokens call.
TransferMined ==
  \E p \in Running("transferTokens", "wait") :
    /\ Clean
    /\ IF p.sa = Undef \/ p.ct = NoContract
       THEN /\ state' = transferFinally(state)
            /\ procs' = DelBag(procs, p)
       ELSE /\ state' = state
            /\ procs' = Replace(p, [p EXCEPT !.pc = "refresh"])
    /\ UNCHANGED <<rendered, listeners, intervals, timeouts, chainOK, nextInterval, used>>

\* The balanceOf of that updateBalance answers b (lines 156-157) or throws
\* (b = 0 set by line 161); then the finally of line 270.
TransferRefreshed ==
  \E p \in Running("transferTokens", "refresh") : \E b \in Balances :
    /\ Clean
    /\ state' = transferFinally([state EXCEPT !.balance = b])
    /\ procs' = DelBag(procs, p)
    /\ UNCHANGED <<rendered, listeners, intervals, timeouts, chainOK, nextInterval, used>>

\* ------------------------------------------------------------ wallet events
\* One accountsChanged listener, lines 382-388, run on w = [state, intervals].
listener(e, a, w) ==
  LET v == stopPollingData(e, w)
  IN IF a = Undef
     THEN [v EXCEPT !.state = resetState(v.state)]
     ELSE [v EXCEPT !.state = setSelectedAddress(v.state, a)]

RECURSIVE RunListeners(_, _, _)
RunListeners(es, a, w) ==
  IF es = {} THEN w
  ELSE LET e == CHOOSE x \in es : TRUE
       IN RunListeners(es \ {e}, a, listener(e, a, w))

\* The initialize calls the listeners start for address a: one per listener.
Started(a) ==
  LET P(e) == Proc("initialize", "code", FALSE, a, e)
  IN [p \in {P(e) : e \in BagToSet(listeners)} |-> listeners[EnvOf(p)]]

\* The wallet emits accountsChanged([a]) (a = Undef: an empty list): every
\* listener registered so far runs.
accountsChanged(a) ==
  /\ BagCardinality(listeners) <= MaxListeners
  /\ LET w == RunListeners(BagToSet(listeners), a,
                           [state |-> state, intervals |-> intervals])
     IN FlushW(w)
  /\ procs' = IF a = Undef THEN procs ELSE procs (+) Started(a)
  /\ Use("events")
  /\ UNCHANGED <<timeouts, chainOK, nextInterval>>

AccountsChanged ==
  \E a \in Addresses \cup {Undef} :
    used.events < MaxAccountEvents /\ accountsChanged(a)

\* The wallet changes the account and is then locked: the last event it
\* emits carries no address.
AccountsChangedAgain ==
  \/ \E a \in Addresses \cup {Undef} :
       used.events + 1 < MaxAccountsChangedAgain /\ accountsChanged(a)
  \/ used.events + 1 = MaxAccountsChangedAgain /\ accountsChanged(Undef)

\* ---------------------------------------------------------------- buttons
\* The Disconnect Wallet button of the main view, lines 434-436.
ClickDisconnect ==
  /\ Clean
  /\ View(rendered) = "main"
  /\ used.disconnects < MaxDisconnects
  /\ Flush(disconnectWallet(state))
  /\ Use("disconnects")
  /\ UNCHANGED <<timeouts, procs, chainOK, nextInterval>>

\* The dismiss button of the network error message, ConnectWallet.js lines 10-15.
ClickDismissNetworkError ==
  /\ Clean
  /\ View(rendered) = "connect" /\ rendered.nerr # Undef
  /\ Flush(dismissNetworkError(state))
  /\ UNCHANGED <<timeouts, procs, chainOK, nextInterval, used>>

\* --------------------------------------------------------- specifications
\* An initialize call whose wallet and chain requests all succeed.
Initialize ==
  \/ ContractCreated \/ MetadataLoaded \/ BalanceLoaded
  \/ TimeoutFires

InitializeFails ==
  \/ ContractMissing \/ MetadataFailed \/ BalanceFailed
  \/ TokenDataFetched \/ TokenDataFailed

Connect == ClickConnect \/ AccountsGranted \/ AccountsRefused

Network == SwitchGranted \/ SwitchRefused \/ AddAnswered

Polling == Tick \/ BalanceRead \/ BalanceReadFailed

Transfer ==
  \/ ClickTransfer \/ TransferSent \/ TransferThrew \/ TransferReverted
  \/ TransferMined \/ TransferRefreshed

\* The wallet is on the expected network when the page loads.
InitOnChain == Init /\ chainOK = TRUE

\* Connecting, with every failure of the wallet and of the chain.
NextConnect ==
  \/ Initialize \/ Connect \/ ClickDisconnect
  \/ ContractMissing \/ MetadataFailed \/ BalanceFailed
SpecConnect == InitOnChain /\ [][NextConnect]_vars

\* Sessions, account changes and the polling timers.
\* One connectWallet call, and at most one request that fails.
NextAccounts ==
  \/ Commit \/ Initialize \/ AccountsChanged
  \/ used.connects = 0 /\ ClickConnect
  \/ AccountsGranted
  \/ Tick \/ BalanceRead
  \/ used.faults = EmptyBag /\ (AccountsRefused \/ BalanceReadFailed)
SpecAccounts == InitOnChain /\ [][NextAccounts]_vars

\* The same with the Disconnect Wallet button.
NextSession == NextAccounts \/ ClickDisconnect
SpecSession == InitOnChain /\ [][NextSession]_vars

\* Transfers within a session.
NextTransfer == Commit \/ Initialize \/ Connect \/ Transfer \/ ClickDisconnect
SpecTransfer == InitOnChain /\ [][NextTransfer]_vars

\* Sessions whose initialize calls meet a chain request that fails.
NextRecover ==
  \/ Commit \/ Initialize \/ InitializeFails \/ AccountsChanged
  \/ used.connects = 0 /\ ClickConnect
  \/ AccountsGranted
SpecRecover == InitOnChain /\ [][NextRecover]_vars

\* One connectWallet call and the wallet's accountsChanged events, with every
\* request answered and no balance read by the timers.
NextEvents ==
  \/ Commit \/ Initialize \/ AccountsChangedAgain
  \/ used.connects = 0 /\ ClickConnect
  \/ AccountsGranted
SpecEvents == InitOnChain /\ [][NextEvents]_vars

\* Connecting from any network, with the switch and add requests.
NextNetwork == Initialize \/ Connect \/ Network \/ BalanceFailed
SpecNetwork == Init /\ [][NextNetwork]_vars

Next ==
  \/ Commit \/ Initialize \/ InitializeFails \/ Connect \/ Network \/ Polling \/ Transfer
  \/ AccountsChanged \/ ClickDisconnect

Spec == Init /\ [][Next]_vars

\* ------------------------------------------------------------------ claims
\* No Session: the slots resetState clears hold their initial values.
NoSession(s) ==
  /\ s.selectedAddress = Undef
  /\ s.contract = NoContract
  /\ s.tokenData = Undef
  /\ s.balance = 0

\* C1: when eth_requestAccounts answers with no account or is rejected,
\* networkError holds a message once connectWallet has completed.
C1_RefusalSurfaced ==
  [][AccountsRefused => state'.networkError # Undef]_vars

\* C2: when eth_requestAccounts answers with no account (or is rejected), the
\* step that completes connectWallet leaves no Session: selectedAddress,
\* contract and tokenData undefined, balance zero, pollingInterval undefined,
\* isConnecting false, and it starts no interval and schedules no timeout.
C2_RefusalLeavesNoSession ==
  [][AccountsRefused =>
       /\ NoSession(state')
       /\ state'.pollingInterval = NoInterval
       /\ ~state'.isConnecting
       /\ intervals' \subseteq intervals
       /\ timeouts' = timeouts]_vars

\* C2's case: connectWallet was refused after an accountsChanged event had
\* selected an address.
C2_Witness ==
  /\ Failed("accounts")
  /\ used.events > 0
  /\ NoSession(state)
  /\ ~state.isConnecting

\* connectWallet succeeded with every request answered, and the 100 ms
\* timeout of its initialize call has fired.
ConnectedAndSettled ==
  /\ state.selectedAddress # Undef
  /\ ~state.isConnecting
  /\ used.connects > 0
  /\ used.faults = EmptyBag
  /\ procs = EmptyBag
  /\ timeouts = EmptyBag

\* C3: after a successful connectWallet and once the 100 ms delay has elapsed,
\* exactly one polling interval is live and it reads the balance of the
\* connected address.
C3_OneTimerAfterConnect ==
  ConnectedAndSettled =>
    /\ Cardinality(intervals) = 1
    /\ \A i \in intervals : i.sa = state.selectedAddress /\ i.ct # NoContract

\* C4: in every reachable state at most one polling interval is live.
C4_AtMostOneInterval ==
  Cardinality(intervals) <= 1

\* C5: an interval started while an address is selected reads the balance of
\* that address: after a change from A to B no new timer reads A.
C5_NewTimerReadsSelected ==
  [][\A i \in intervals' \ intervals :
       state.selectedAddress # Undef => i.sa = state.selectedAddress]_vars

\* The state disconnectWallet leaves: no Session, no pending transaction and
\* no transaction error.
Cleared(s) ==
  /\ NoSession(s)
  /\ s.txBeingSent = NoTx
  /\ s.transactionError = Undef

\* disconnectWallet has run and Connect Wallet has not been clicked since.
Disconnected ==
  /\ used.disconnects > 0
  /\ used.connects = 1
  /\ used.events = 0

\* C6: after disconnectWallet the cleared Session state stays cleared until
\* the next connect; no operation in flight at disconnect changes it.
C6_ClearedUntilConnect ==
  [][Disconnected /\ Cleared(state) => Cleared(state')]_vars

\* C7: once disconnectWallet has run and no Session exists, every interval
\* that was started has been cleared.
C7_NoIntervalAfterDisconnect ==
  (used.disconnects > 0 /\ NoSession(state)) => intervals = {}

\* The balance reads (updateBalance calls) that are awaiting their answer.
Refreshes(ps) ==
  LET rs == {q \in BagToSet(ps) : q.pc \in {"read", "refresh"}}
  IN BagCardinality([q \in rs |-> CopiesIn(q, ps)])

\* C8: a transferTokens call whose receipt has status failure issues a balance
\* refresh as part of completing.
C8_RevertRefreshes ==
  [][TransferReverted => Refreshes(procs') > Refreshes(procs)]_vars

\* The step in which contract.transfer or tx.wait fails with code 4001.
RejectedStep ==
  CopiesIn("rejected", used'.faults) > CopiesIn("rejected", used.faults)

C10_ErrorStaysUntilDismissed ==
  [][(state.transactionError # Undef /\ state'.transactionError = Undef) =>
       (ClickTransfer \/ ClickDisconnect \/ AccountsRefused)]_vars

\* C11: when name() or symbol() fails in an initialize call that has its
\* contract, tokenData is not left undefined when that call returns, and the
\* polling timeout is scheduled.
C11_MetadataFailureFallsBack ==
  [][(MetadataFailed /\ BagCardinality(procs') < BagCardinality(procs)) =>
       (state'.tokenData # Undef /\ timeouts' # timeouts)]_vars

\* C12 as stated: when the code check finds no bytecode or throws, contract
\* is undefined after initialize, tokenData is the placeholder, balance is
\* zero and no polling is scheduled.
C12_NoCodeLeavesNoContract ==
  [][ContractMissing =>
       /\ state'.contract = NoContract
       /\ state'.tokenData = "placeholder"
       /\ state'.balance = 0
       /\ timeouts' = timeouts]_vars

\* C12: when the code check finds no bytecode or throws, initialize does not
\* set contract (it keeps the value it had), sets tokenData to the
\* placeholder and balance to zero, schedules no timeout and starts no
\* interval; contract only ever changes to a new handle in the step that
\* follows a successful code check.
C12_NoCodeSetsNoContract ==
  [][/\ ContractMissing =>
          /\ state'.contract = state.contract
          /\ state'.tokenData = "placeholder"
          /\ state'.balance = 0
          /\ timeouts' = timeouts
          /\ intervals' \subseteq intervals
     /\ state'.contract \notin {state.contract, NoContract} => ContractCreated]_vars

\* C12's case: a code check failed in a session whose earlier initialize had
\* set the contract.
C12_Witness ==
  /\ Failed("code")
  /\ state.contract # NoContract
  /\ state.tokenData = "placeholder"
  /\ state.balance = 0

\* C13: an accountsChanged event without an address leaves no Session, no
\* pending transaction, no error and no live polling interval; an event with
\* address b makes selectedAddress b.
C13_AccountChangeResets ==
  [][/\ accountsChanged(Undef) =>
          /\ Cleared(state')
          /\ state'.networkError = Undef
          /\ state'.pollingInterval = NoInterval
          /\ intervals' = {}
     /\ \A b \in Addresses : accountsChanged(b) => state'.selectedAddress = b]_vars

\* C14: a networkError that is set stays set; in particular the message set
\* when the switch/add recovery failed is there when connectWallet completes.
\* (No step of the model is a dismiss click: the message is never on screen.)
C14_NetworkErrorStays ==
  [][state.networkError # Undef => state'.networkError # Undef]_vars

\* The awaits at which connectWallet calls are pending.
Awaited(ps) == {p.pc : p \in {q \in BagToSet(ps) : q.kind = "connectWallet"}}

\* The step in which a request counted as fault k fails.
FailedNow(k) == CopiesIn(k, used'.faults) > CopiesIn(k, used.faults)

\* C15: on a network mismatch wallet_switchEthereumChain is sent first;
\* wallet_addEthereumChain is sent only when that switch failed with code
\* 4902, and the second switch only after the add was answered; a switch that
\* fails with another code sends no add request and sets the network error.
C15_SwitchThenAdd ==
  [][/\ ("switch" \in Awaited(procs') \ Awaited(procs)) =>
          ("accounts" \in Awaited(procs) /\ ~chainOK)
     /\ ("add" \in Awaited(procs') \ Awaited(procs)) =>
          ("switch" \in Awaited(procs) /\ FailedNow("unrecognized"))
     /\ ("reswitch" \in Awaited(procs') \ Awaited(procs)) =>
          ("add" \in Awaited(procs) /\ used'.faults = used.faults)
     /\ FailedNow("switch") =>
          ("add" \notin Awaited(procs') /\ state'.networkError # Undef)]_vars

\* C15's case: the first switch failed with 4902, the add request was
\* answered and the second switch is pending.
C15_Witness ==
  /\ Failed("unrecognized")
  /\ "reswitch" \in Awaited(procs)

\* C16: when the balanceOf of an updateBalance call fails, balance becomes
\* zero, the call ends there (nothing of it stays pending and no other call
\* is affected), and transactionError, networkError, selectedAddress,
\* contract and tokenData keep their values.
C16_ReadFailureOnlyZeroesBalance ==
  [][BalanceReadFailed =>
       /\ state'.balance = 0
       /\ state'.transactionError = state.transactionError
       /\ state'.networkError = state.networkError
       /\ state'.selectedAddress = state.selectedAddress
       /\ state'.contract = state.contract
       /\ state'.tokenData = state.tokenData
       /\ BagCardinality(procs') = BagCardinality(procs) - 1
       /\ procs' \sqsubseteq procs]_vars

\* C16's case: a polling read failed in a session that had shown a positive
\* balance.
C16_Witness ==
  /\ Failed("read")
  /\ state.balance = 0
  /\ state.selectedAddress # Undef
  /\ state.contract # NoContract
  /\ state.tokenData # Undef

\* C17: when the screen is drawn for a selected address with token metadata
\* and a balance of zero, it is the token view, not the loading screen.
C17_ZeroBalanceShowsTokenView ==
  (rendered.sa # Undef /\ rendered.td # Undef /\ rendered.bal = 0) =>
    View(rendered) = "main"

\* C18: no render shows a mixed Session. Until the first accountsChanged event
\* every balance in the state was read for the connected address A; the
\* render that follows a change from A to another address b shows b with the
\* reset default balance, not with the balance read for A.
C18_NoMixedSession ==
  [][\A b \in Addresses :
       (accountsChanged(b) /\ used.events = 0
          /\ state.selectedAddress \notin {b, Undef}) =>
       (rendered'.sa = b => rendered'.bal = 0)]_vars

\* C19: at most one accountsChanged listener of the component is registered
\* on the wallet provider.
C19_OneSubscription ==
  BagCardinality(listeners) <= 1

\* C20: a step that starts a polling interval also issues a balance read.
C20_ImmediateRead ==
  [][intervals' \ intervals # {} => Refreshes(procs') > Refreshes(procs)]_vars

\* The transferTokens calls whose transaction was sent and whose wait() or
\* completion handling has not finished.
Unsettled == Running("transferTokens", "wait") \cup Running("transferTokens", "refresh")

\* C21: as long as the session has not been disconnected, txBeingSent holds a
\* hash whenever a submitted transfer is awaiting settlement, also when
\* another transferTokens call overlaps it.
C21_PendingTransferMarked ==
  (used.disconnects = 0 /\ Unsettled # {}) => state.txBeingSent # NoTx

\* C22: isConnecting is true exactly while a connectWallet call is in flight,
\* and at most one connectWallet call is in flight.
C22_ConnectingWhileInFlight ==
  /\ Cardinality({p \in BagToSet(procs) : p.kind = "connectWallet"}) <= 1
  /\ \A p \in BagToSet(procs) : p.kind = "connectWallet" => CopiesIn(p, procs) = 1
  /\ state.isConnecting <=> (\E p \in BagToSet(procs) : p.kind = "connectWallet")

\* C22's case: a connectWallet call whose network recovery failed has
\* completed.
C22_Witness ==
  /\ used.connects > 0
  /\ Failed("switch")
  /\ ~state.isConnecting
  /\ \A p \in BagToSet(procs) : p.kind # "connectWallet"
====
